---------------------------- MODULE Spec2Model ----------------------------
(***************************************************************************)
(* Model of the WhatsApp chat extractor page (src/unnamed/part_000): the   *)
(* transcript parser parseWhatsAppChat, run as a state machine that takes  *)
(* one physical line per step.                                             *)
(*                                                                         *)
(* A JavaScript string is a sequence of one-character strings; the regular *)
(* expressions of the source are syntax trees run by a backtracking        *)
(* matcher that returns its successes in priority order, so the first one  *)
(* is the match String.prototype.match reports.                            *)
(***************************************************************************)
EXTENDS Integers, Sequences, FiniteSets, TLC

(***************************************************************************)
(* Bounds of the model.                                                    *)
(***************************************************************************)
\* Largest number of physical lines of an input text.
MaxLines == 3
\* Largest number of physical lines of an input text when several parses
\* run one after the other.
MaxRepeatLines == 2
\* Largest number of parseWhatsAppChat calls in a run of several parses.
MaxCalls == 3
\* Largest number of handleFileUpload calls in a run of the page.
MaxUploads == 3

(***************************************************************************)
(* State.                                                                  *)
(***************************************************************************)
VARIABLES
  text,            \* the argument of the current parseWhatsAppChat call
  hostDates,       \* the host-dependent date strings the host accepts
  pc,              \* "idle", "loop", "done" or "threw"
  lines,           \* const lines = text.split('\n')
  idx,             \* position of the loop over lines, from 1
  messages,        \* const messages: Message[]
  participantsSet, \* const participantsSet = new Set<string>()
  currentMessage,  \* let currentMessage: Message | null
  result,          \* what the call returned
  calls,           \* number of calls started
  remembered,      \* an earlier call the caller kept: its text and result
  file,            \* useState<File | null>(null)
  parsedData,      \* useState<ParsedData | null>(null)
  error,           \* useState<string>('')
  loading,         \* useState(false)
  searchTerm,      \* useState('')
  selectedSender,  \* useState<string>('all')
  pending,         \* the handleFileUpload calls waiting for their file's text
  settled,         \* the handleFileUpload call that ended last
  uploads,         \* number of handleFileUpload calls started
  csvContent       \* const csvContent of the last downloadCSV

\* The state of the page component.
pageVars ==
  <<file, parsedData, error, loading, searchTerm, selectedSender, pending,
    settled, uploads, csvContent>>

\* The state of a parseWhatsAppChat call and of its caller.
parserVars ==
  <<text, pc, lines, idx, messages, participantsSet, currentMessage, result,
    calls, remembered>>

vars ==
  <<text, hostDates, pc, lines, idx, messages, participantsSet,
    currentMessage, result, calls, remembered, file, parsedData, error,
    loading, searchTerm, selectedSender, pending, settled, uploads,
    csvContent>>

(***************************************************************************)
(* Characters.                                                             *)
(***************************************************************************)
\* UTF-16 code units of the characters the inputs are made of.
CharCode ==
  ("\t" :> 9) @@ ("\n" :> 10) @@ ("\f" :> 12) @@ ("\r" :> 13) @@
  (" " :> 32) @@ ("\"" :> 34) @@ ("," :> 44) @@ ("-" :> 45) @@
  ("/" :> 47) @@ ("0" :> 48) @@ ("1" :> 49) @@ ("2" :> 50) @@
  ("3" :> 51) @@ ("4" :> 52) @@ ("5" :> 53) @@ ("6" :> 54) @@
  ("7" :> 55) @@ ("8" :> 56) @@ ("9" :> 57) @@ (":" :> 58) @@
  ("A" :> 65) @@ ("B" :> 66) @@ ("M" :> 77) @@ ("P" :> 80) @@
  ("[" :> 91) @@ ("]" :> 93) @@ ("a" :> 97) @@ ("b" :> 98) @@
  ("c" :> 99) @@ ("h" :> 104) @@ ("i" :> 105) @@ ("m" :> 109) @@
  ("p" :> 112) @@ ("q" :> 113) @@ ("x" :> 120) @@ ("y" :> 121)

\* String.prototype.toUpperCase on one character: the canonicalisation the
\* i flag of a regular expression applies to both sides of a comparison.
ToUpper(c) ==
  CASE c = "a" -> "A" [] c = "b" -> "B" [] c = "c" -> "C" [] c = "h" -> "H"
    [] c = "i" -> "I" [] c = "m" -> "M" [] c = "p" -> "P" [] c = "q" -> "Q"
    [] c = "x" -> "X" [] c = "y" -> "Y" [] OTHER -> c

\* \d
Digits == {"0", "1", "2", "3", "4", "5", "6", "7", "8", "9"}
\* \s, and what String.prototype.trim strips.
WhiteSpace == {" ", "\t", "\n", "\r", "\f"}
\* What . does not match.
LineTerminators == {"\n", "\r"}

(***************************************************************************)
(* Regular expressions.                                                    *)
(***************************************************************************)
Unbounded == -1
\* The value of a capture group that took no part in the match, and of an
\* array element past the end.
Undefined == <<"undefined">>

Lit(c) == [t |-> "lit", c |-> c]
Cls(S) == [t |-> "cls", set |-> S, neg |-> FALSE]
NotCls(S) == [t |-> "cls", set |-> S, neg |-> TRUE]
Cat(xs) == [t |-> "cat", xs |-> xs]
Rep(r, lo, hi) == [t |-> "rep", r |-> r, lo |-> lo, hi |-> hi]
Grp(n, r) == [t |-> "grp", n |-> n, r |-> r]
Bol == [t |-> "bol"]
Eol == [t |-> "eol"]
Opt(r) == Rep(r, 0, 1)
Star(r) == Rep(r, 0, Unbounded)
Plus(r) == Rep(r, 1, Unbounded)
D(lo, hi) == Rep(Cls(Digits), lo, hi)
Ws == Star(Cls(WhiteSpace))
AnyChar == NotCls(LineTerminators)

\* Whether character c is in the class of node r, under the i flag.
InClass(r, c, icase) ==
  LET in == IF icase
            THEN \E d \in r.set : ToUpper(d) = ToUpper(c)
            ELSE c \in r.set
  IN  IF r.neg THEN ~in ELSE in

RECURSIVE M(_, _, _, _, _)
RECURSIVE MCat(_, _, _, _, _, _)
RECURSIVE MCatEach(_, _, _, _, _, _)
RECURSIVE MRep(_, _, _, _, _, _)
RECURSIVE MRepEach(_, _, _, _, _, _, _)
RECURSIVE MGrpEach(_, _, _, _, _)

\* The successes of node r on string s from position i with captures caps,
\* in the order a backtracking matcher tries them (greedy first).
M(r, s, i, caps, icase) ==
  CASE r.t = "lit" ->
         IF i <= Len(s) /\ (IF icase THEN ToUpper(s[i]) = ToUpper(r.c)
                                     ELSE s[i] = r.c)
         THEN <<[pos |-> i + 1, caps |-> caps]>> ELSE <<>>
    [] r.t = "cls" ->
         IF i <= Len(s) /\ InClass(r, s[i], icase)
         THEN <<[pos |-> i + 1, caps |-> caps]>> ELSE <<>>
    [] r.t = "bol" ->
         IF i = 1 THEN <<[pos |-> i, caps |-> caps]>> ELSE <<>>
    [] r.t = "eol" ->
         IF i = Len(s) + 1 THEN <<[pos |-> i, caps |-> caps]>> ELSE <<>>
    [] r.t = "cat" -> MCat(r.xs, 1, s, i, caps, icase)
    [] r.t = "rep" -> MRep(r, 0, s, i, caps, icase)
    [] r.t = "grp" -> MGrpEach(M(r.r, s, i, caps, icase), 1, r.n, s, i)

MCat(xs, k, s, i, caps, icase) ==
  IF k > Len(xs) THEN <<[pos |-> i, caps |-> caps]>>
  ELSE MCatEach(M(xs[k], s, i, caps, icase), 1, xs, k + 1, s, icase)

MCatEach(outs, j, xs, k, s, icase) ==
  IF j > Len(outs) THEN <<>>
  ELSE MCat(xs, k, s, outs[j].pos, outs[j].caps, icase)
       \o MCatEach(outs, j + 1, xs, k, s, icase)

\* n iterations done: one more iteration first (greedy), then stopping here.
MRep(r, n, s, i, caps, icase) ==
  (IF r.hi = Unbounded \/ n < r.hi
   THEN MRepEach(M(r.r, s, i, caps, icase), 1, r, n + 1, s, i, icase)
   ELSE <<>>)
  \o (IF n >= r.lo THEN <<[pos |-> i, caps |-> caps]>> ELSE <<>>)

\* An iteration that consumed nothing is not repeated.
MRepEach(outs, j, r, n, s, i, icase) ==
  IF j > Len(outs) THEN <<>>
  ELSE (IF outs[j].pos > i
        THEN MRep(r, n, s, outs[j].pos, outs[j].caps, icase) ELSE <<>>)
       \o MRepEach(outs, j + 1, r, n, s, i, icase)

MGrpEach(outs, j, n, s, i) ==
  IF j > Len(outs) THEN <<>>
  ELSE <<[pos |-> outs[j].pos,
          caps |-> [outs[j].caps EXCEPT ![n] = SubSeq(s, i, outs[j].pos - 1)]]>>
       \o MGrpEach(outs, j + 1, n, s, i)

RECURSIVE NoCaptures(_)
\* The n capture groups of a pattern before the match: all undefined.
NoCaptures(n) ==
  IF n = 0 THEN <<>> ELSE Append(NoCaptures(n - 1), Undefined)

RECURSIVE ExecFrom(_, _, _)
\* The first success of pattern p on s starting at position i or later.
ExecFrom(p, s, i) ==
  IF i > Len(s) + 1 THEN <<>>
  ELSE LET outs == M(p.re, s, i, NoCaptures(p.ngroups), p.icase)
       IN  IF outs # <<>>
           THEN <<SubSeq(s, i, outs[1].pos - 1)>> \o outs[1].caps
           ELSE ExecFrom(p, s, i + 1)

\* null, and a value that is not null: an optional value is a sequence of
\* at most one element.
Null == <<>>
NonNull(v) == <<v>>
Value(o) == o[1]

\* String.prototype.match(pattern) for a pattern without the g flag: null, or
\* the array of the whole match followed by the capture groups.
RegexMatch(s, p) ==
  LET m == ExecFrom(p, s, 1) IN IF m = <<>> THEN Null ELSE NonNull(m)

\* SenderAndMessage changed to take the sender with (.+) in place of
\* ([^:]+): the sender then runs up to the last colon of the line.
SenderAndMessageGreedy ==
  <<Grp(3, Plus(NotCls(LineTerminators))), Lit(":"),
    Star(Cls(WhiteSpace)), Grp(4, Star(NotCls(LineTerminators))), Eol>>

\* The date and the sender part the three dash-separated patterns share.
DateOf(yearLo, yearHi) ==
  Cat(<<D(1, 2), Lit("/"), D(1, 2), Lit("/"), D(yearLo, yearHi)>>)
AmPm == Cat(<<Ws, Cls({"A", "P"}), Lit("M")>>)
SenderAndMessage ==
  <<Grp(3, Plus(NotCls({":"}))), Lit(":"), Ws, Grp(4, Star(AnyChar)), Eol>>

\* /^\[(\d{1,2}\/\d{1,2}\/\d{2,4}),\s*(\d{1,2}:\d{2}(?::\d{2})?(?:\s*[AP]M)?)\]\s*([^:]+):\s*(.*)$/i
Pattern1 ==
  [re |-> Cat(<<Bol, Lit("["), Grp(1, DateOf(2, 4)), Lit(","), Ws,
                Grp(2, Cat(<<D(1, 2), Lit(":"), D(2, 2),
                             Opt(Cat(<<Lit(":"), D(2, 2)>>)), Opt(AmPm)>>)),
                Lit("]"), Ws>> \o SenderAndMessage),
   ngroups |-> 4, icase |-> TRUE]
\* /^(\d{1,2}\/\d{1,2}\/\d{2,4}),\s*(\d{1,2}:\d{2}(?:\s*[AP]M)?)\s*-\s*([^:]+):\s*(.*)$/i
Pattern2 ==
  [re |-> Cat(<<Bol, Grp(1, DateOf(2, 4)), Lit(","), Ws,
                Grp(2, Cat(<<D(1, 2), Lit(":"), D(2, 2), Opt(AmPm)>>)),
                Ws, Lit("-"), Ws>> \o SenderAndMessage),
   ngroups |-> 4, icase |-> TRUE]
\* /^(\d{1,2}\/\d{1,2}\/\d{2}),\s*(\d{1,2}:\d{2}(?:\s*[AP]M)?)\s*-\s*([^:]+):\s*(.*)$/i
Pattern3 ==
  [re |-> Cat(<<Bol, Grp(1, DateOf(2, 2)), Lit(","), Ws,
                Grp(2, Cat(<<D(1, 2), Lit(":"), D(2, 2), Opt(AmPm)>>)),
                Ws, Lit("-"), Ws>> \o SenderAndMessage),
   ngroups |-> 4, icase |-> TRUE]
\* /^(\d{1,2}\/\d{1,2}\/\d{2}),\s*(\d{1,2}:\d{2}\s*[AP]M)\s*-\s*([^:]+):\s*(.*)$/i
Pattern4 ==
  [re |-> Cat(<<Bol, Grp(1, DateOf(2, 2)), Lit(","), Ws,
                Grp(2, Cat(<<D(1, 2), Lit(":"), D(2, 2), AmPm>>)),
                Ws, Lit("-"), Ws>> \o SenderAndMessage),
   ngroups |-> 4, icase |-> TRUE]

patterns == <<Pattern1, Pattern2, Pattern3, Pattern4>>

(***************************************************************************)
(* Input lines.                                                            *)
(***************************************************************************)
\* [01/02/2023,1:11]b:x
LineBracket == <<"[", "0", "1", "/", "0", "2", "/", "2", "0", "2", "3", ",", "1", ":", "1", "1", "]", "b", ":", "x">>
\* 1/1/11, 1:11 pm - a: y (with a trailing space)
LineDashPm == <<"1", "/", "1", "/", "1", "1", ",", " ", "1", ":", "1", "1", " ", "p", "m", " ", "-", " ", "a", ":", " ", "y", " ">>
\* 31/13/2023,1:11-B :"q"
LineBadMonth == <<"3", "1", "/", "1", "3", "/", "2", "0", "2", "3", ",", "1", ":", "1", "1", "-", "B", " ", ":", "\"", "q", "\"">>
\* hi
LineText == <<"h", "i">>
\* the empty line
LineEmpty == <<>>
\* a space and a carriage return
LineSpaces == <<" ", "\r">>
\* 1/1/11,1:11-a:x followed by a carriage return
LineDashCr == <<"1", "/", "1", "/", "1", "1", ",", "1", ":", "1", "1", "-", "a", ":", "x", "\r">>
\* [1/1/11,1:11]a:
LineBracketNoBody == <<"[", "1", "/", "1", "/", "1", "1", ",", "1", ":", "1", "1", "]", "a", ":">>
\* 1/1/11,1:11-a:b:c
LineDashColon == <<"1", "/", "1", "/", "1", "1", ",", "1", ":", "1", "1", "-", "a", ":", "b", ":", "c">>

LineTokens ==
  {LineBracket, LineDashPm, LineBadMonth, LineText, LineEmpty, LineSpaces,
   LineDashCr, LineBracketNoBody, LineDashColon}
\* The lines of the inputs of a run of several parses.
RepeatLineTokens == {LineBracket, LineDashPm, LineText}

RECURSIVE Join(_, _)
\* Array.prototype.join(sep)
Join(parts, sep) ==
  IF parts = <<>> THEN <<>>
  ELSE IF Len(parts) = 1 THEN parts[1]
  ELSE parts[1] \o sep \o Join(Tail(parts), sep)

\* The texts of at most n lines, each one of the set tokens.
TextsOf(tokens, n) ==
  {Join(ls, <<"\n">>) : ls \in UNION {[1..k -> tokens] : k \in 0..n}}

(***************************************************************************)
(* String and array functions of the host.                                 *)
(***************************************************************************)
RECURSIVE SplitFrom(_, _, _, _)
\* The pieces of s from position i on, cur being the piece in progress.
SplitFrom(s, sep, i, cur) ==
  IF i > Len(s) THEN <<cur>>
  ELSE IF s[i] = sep THEN <<cur>> \o SplitFrom(s, sep, i + 1, <<>>)
  ELSE SplitFrom(s, sep, i + 1, Append(cur, s[i]))

\* String.prototype.split(sep) for a one-character separator: the empty
\* string splits into one empty piece.
Split(s, sep) == SplitFrom(s, sep, 1, <<>>)

RECURSIVE TrimStart(_)
TrimStart(s) ==
  IF s # <<>> /\ Head(s) \in WhiteSpace THEN TrimStart(Tail(s)) ELSE s

RECURSIVE TrimEnd(_)
TrimEnd(s) ==
  IF s # <<>> /\ s[Len(s)] \in WhiteSpace
  THEN TrimEnd(SubSeq(s, 1, Len(s) - 1)) ELSE s

\* String.prototype.trim
Trim(s) == TrimEnd(TrimStart(s))

RECURSIVE Reverse(_)
\* Array.prototype.reverse
Reverse(a) == IF a = <<>> THEN <<>> ELSE Append(Reverse(Tail(a)), Head(a))

\* Element k (counted from 0) of array a; undefined past the end.
At(a, k) == IF k + 1 <= Len(a) THEN a[k + 1] ELSE Undefined

\* Whether value v is an element of array a.
Has(a, v) == \E k \in 1..Len(a) : a[k] = v

\* Set.prototype.add: a Set keeps its elements in insertion order.
SetAdd(set, v) == IF Has(set, v) THEN set ELSE Append(set, v)

RECURSIVE StrLess(_, _)
\* a < b for strings: by UTF-16 code units, a proper prefix first.
StrLess(a, b) ==
  IF b = <<>> THEN FALSE
  ELSE IF a = <<>> THEN TRUE
  ELSE IF Head(a) = Head(b) THEN StrLess(Tail(a), Tail(b))
  ELSE CharCode[Head(a)] < CharCode[Head(b)]

RECURSIVE InsertSorted(_, _)
InsertSorted(sorted, v) ==
  IF sorted = <<>> THEN <<v>>
  ELSE IF StrLess(v, Head(sorted)) THEN <<v>> \o sorted
  ELSE <<Head(sorted)>> \o InsertSorted(Tail(sorted), v)

\* Sort changed to leave the array in insertion order.
Unsorted(a) == a

RECURSIVE Sort(_)
\* Array.prototype.sort() with the default comparison, on strings.
Sort(a) ==
  IF a = <<>> THEN <<>>
  ELSE InsertSorted(Sort(SubSeq(a, 1, Len(a) - 1)), a[Len(a)])

(***************************************************************************)
(* new Date(string).  ECMAScript fixes the result for a string in the      *)
(* date-time format YYYY-MM-DD with legal element values, and makes it     *)
(* NaN for one with an illegal month or day; for any other string the host *)
(* may fall back to heuristics of its own, and hosts differ on a day past  *)
(* the end of its month.  hostDates is the set of such strings the host    *)
(* the page runs on parses to a valid date.                                *)
(***************************************************************************)
RECURSIVE Num(_)
\* The number a string of digits denotes.
Num(ds) ==
  IF ds = <<>> THEN 0
  ELSE 10 * Num(SubSeq(ds, 1, Len(ds) - 1)) + (CharCode[ds[Len(ds)]] - 48)

AllDigits(ds) == \A k \in 1..Len(ds) : ds[k] \in Digits

IsIsoFormat(str) ==
  LET parts == Split(str, "-")
  IN  /\ Len(parts) = 3
      /\ Len(parts[1]) = 4 /\ Len(parts[2]) = 2 /\ Len(parts[3]) = 2
      /\ \A k \in 1..3 : AllDigits(parts[k])

IsLeapYear(y) == (y % 4 = 0 /\ y % 100 # 0) \/ y % 400 = 0

DaysInMonth(y, m) ==
  IF m = 2 THEN (IF IsLeapYear(y) THEN 29 ELSE 28)
  ELSE IF m \in {4, 6, 9, 11} THEN 30 ELSE 31

\* Whether the host alone decides if str is a valid date.
IsHostDependent(str) ==
  IF IsIsoFormat(str)
  THEN LET parts == Split(str, "-")
           y == Num(parts[1])
           m == Num(parts[2])
           d == Num(parts[3])
       IN  m \in 1..12 /\ d > DaysInMonth(y, m) /\ d <= 31
  ELSE TRUE

\* !isNaN(new Date(str).getTime()) on a host that accepts the strings host.
DateIsValid(str, host) ==
  IF IsHostDependent(str) THEN str \in host
  ELSE LET parts == Split(str, "-")
       IN  Num(parts[2]) \in 1..12 /\ Num(parts[3]) \in 1..DaysInMonth(Num(parts[1]), Num(parts[2]))

\* m.date.split('/').reverse().join('-')
DateString(date) == Join(Reverse(Split(date, "/")), <<"-">>)

\* The date tokens of the input lines.
DateTokens ==
  {<<"0", "1", "/", "0", "2", "/", "2", "0", "2", "3">>,
   <<"1", "/", "1", "/", "1", "1">>,
   <<"3", "1", "/", "1", "3", "/", "2", "0", "2", "3">>}

HostDependentDates ==
  {str \in {DateString(d) : d \in DateTokens} : IsHostDependent(str)}

(***************************************************************************)
(* parseWhatsAppChat.                                                      *)
(***************************************************************************)
RECURSIVE FirstMatchFrom(_, _)
\* The inner loop over the patterns from pattern k on: the match of the
\* first pattern that matches the line, or null.
FirstMatchFrom(line, k) ==
  IF k > Len(patterns) THEN Null
  ELSE LET match == RegexMatch(line, patterns[k])
       IN  IF match # Null THEN match ELSE FirstMatchFrom(line, k + 1)

\* The matches of the input lines, computed once.
MatchOfToken == [line \in LineTokens |-> FirstMatchFrom(line, 1)]

FirstMatch(line) ==
  IF line \in LineTokens THEN MatchOfToken[line] ELSE FirstMatchFrom(line, 1)

\* !line.trim()
IsBlank(line) == Trim(line) = <<>>

\* NewLocals changed to keep the participant set of the call before, as a
\* set declared outside the function would.
StaleLocals ==
  [messages |-> <<>>, participantsSet |-> participantsSet,
   currentMessage |-> Null, threw |-> FALSE]

\* The locals of a call as it starts.
NewLocals ==
  [messages |-> <<>>, participantsSet |-> <<>>, currentMessage |-> Null,
   threw |-> FALSE]

\* PushCurrent changed to unshift in place of push.
PushCurrentFront(st) ==
  IF st.currentMessage # Null
  THEN <<Value(st.currentMessage)>> \o st.messages
  ELSE st.messages

\* if (currentMessage) messages.push(currentMessage)
PushCurrent(st) ==
  IF st.currentMessage # Null
  THEN Append(st.messages, Value(st.currentMessage))
  ELSE st.messages

\* The body of "if (match)": the line starts a new message.  Calling trim on
\* an undefined group throws.
OnHeader(st, match) ==
  LET date == At(match, 1)
      time == At(match, 2)
      sender == At(match, 3)
      message == At(match, 4)
      pushed == [st EXCEPT !.messages = PushCurrent(st)]
  IN  IF sender = Undefined THEN [pushed EXCEPT !.threw = TRUE]
      ELSE LET trimmedSender == Trim(sender)
               added == [pushed EXCEPT !.participantsSet =
                                         SetAdd(@, trimmedSender)]
           IN  IF message = Undefined THEN [added EXCEPT !.threw = TRUE]
               ELSE [added EXCEPT !.currentMessage =
                       NonNull([timestamp |-> date \o <<",", " ">> \o time,
                                date |-> date,
                                time |-> time,
                                sender |-> trimmedSender,
                                message |-> Trim(message)])]

\* OnUnmatched changed to append the line without the newline before it.
OnUnmatchedNoSeparator(st, line) ==
  IF st.currentMessage # Null
  THEN [st EXCEPT !.currentMessage =
          NonNull([Value(@) EXCEPT !.message = @ \o line])]
  ELSE st

\* OnUnmatched changed to "if (!matched)": with no message in progress,
\* reading currentMessage.message throws.
OnUnmatchedUnguarded(st, line) ==
  IF st.currentMessage # Null
  THEN [st EXCEPT !.currentMessage =
          NonNull([Value(@) EXCEPT !.message = @ \o <<"\n">> \o line])]
  ELSE [st EXCEPT !.threw = TRUE]

\* OnUnmatched changed to start a message of no sender from a line that
\* comes before the first header line.
OnUnmatchedStartsMessage(st, line) ==
  IF st.currentMessage # Null
  THEN [st EXCEPT !.currentMessage =
          NonNull([Value(@) EXCEPT !.message = @ \o <<"\n">> \o line])]
  ELSE [st EXCEPT !.currentMessage =
          NonNull([timestamp |-> <<>>, date |-> <<>>, time |-> <<>>,
                   sender |-> <<>>, message |-> line])]

\* OnUnmatched changed to append the line to the message pushed last as
\* well, as it would were that message still the object in progress.
OnUnmatchedAmendsEmitted(st, line) ==
  IF st.currentMessage # Null
  THEN [st EXCEPT
          !.currentMessage =
             NonNull([Value(@) EXCEPT !.message = @ \o <<"\n">> \o line]),
          !.messages =
             IF @ = <<>> THEN @
             ELSE [@ EXCEPT ![Len(@)].message = @ \o <<"\n">> \o line]]
  ELSE st

\* The body of "if (!matched && currentMessage)".
OnUnmatched(st, line) ==
  IF st.currentMessage # Null
  THEN [st EXCEPT !.currentMessage =
          NonNull([Value(@) EXCEPT !.message = @ \o <<"\n">> \o line])]
  ELSE st

RECURSIVE EveryMatchFrom(_, _, _)
\* The loop over the patterns from pattern k on without its "break": each
\* pattern that matches the line starts a message.
EveryMatchFrom(st, line, k) ==
  IF k > Len(patterns) \/ st.threw THEN st
  ELSE LET match == RegexMatch(line, patterns[k])
       IN  EveryMatchFrom(IF match # Null THEN OnHeader(st, Value(match))
                          ELSE st,
                          line, k + 1)

\* LineStep changed to lack the "break" of the loop over the patterns.
LineStepNoBreak(st, line) ==
  IF IsBlank(line) THEN st
  ELSE IF FirstMatch(line) # Null THEN EveryMatchFrom(st, line, 1)
  ELSE OnUnmatched(st, line)

\* LineStep changed to lack the "continue" of a blank line.
LineStepNoSkip(st, line) ==
  LET match == FirstMatch(line)
  IN  IF match # Null THEN OnHeader(st, Value(match))
      ELSE OnUnmatched(st, line)

\* One iteration of the loop over the lines.
LineStep(st, line) ==
  IF IsBlank(line) THEN st
  ELSE LET match == FirstMatch(line)
       IN  IF match # Null THEN OnHeader(st, Value(match))
           ELSE OnUnmatched(st, line)

NotAvailable == <<"N", "/", "A">>
GroupName == <<"Z", "e", "r", "o", " ", "t", "o", " ", "O", "n", "e">>

\* ReturnValue changed to lack the "return null" of an empty message list.
ReturnValueNoNull(st, host) ==
  LET all == PushCurrent(st)
      validDates ==
        SelectSeq(all, LAMBDA m : DateIsValid(DateString(m.date), host))
  IN  NonNull(
        [groupName |-> GroupName,
         messages |-> all,
         participants |-> Sort(st.participantsSet),
         messageCount |-> Len(all),
         dateRange |->
           [start |-> IF Len(validDates) > 0 THEN all[1].date
                      ELSE NotAvailable,
            end |-> IF Len(validDates) > 0 THEN all[Len(all)].date
                    ELSE NotAvailable]])

\* ReturnValue changed to take the range from the first and the last valid
\* date.
ReturnValueValidRange(st, host) ==
  LET all == PushCurrent(st)
      validDates ==
        SelectSeq(all, LAMBDA m : DateIsValid(DateString(m.date), host))
  IN  IF Len(all) = 0 THEN Null
      ELSE NonNull(
             [groupName |-> GroupName,
              messages |-> all,
              participants |-> Sort(st.participantsSet),
              messageCount |-> Len(all),
              dateRange |->
                [start |-> IF Len(validDates) > 0 THEN validDates[1].date
                           ELSE NotAvailable,
                 end |-> IF Len(validDates) > 0
                         THEN validDates[Len(validDates)].date
                         ELSE NotAvailable]])

\* ReturnValue changed to lack the push of the message in progress after
\* the loop.
ReturnValueNoFlush(st, host) ==
  LET all == st.messages
      validDates ==
        SelectSeq(all, LAMBDA m : DateIsValid(DateString(m.date), host))
  IN  IF Len(all) = 0 THEN Null
      ELSE NonNull(
             [groupName |-> GroupName,
              messages |-> all,
              participants |-> Sort(st.participantsSet),
              messageCount |-> Len(all),
              dateRange |->
                [start |-> IF Len(validDates) > 0 THEN all[1].date
                           ELSE NotAvailable,
                 end |-> IF Len(validDates) > 0 THEN all[Len(all)].date
                         ELSE NotAvailable]])

\* What the call returns once the loop is over.
ReturnValue(st, host) ==
  LET all == PushCurrent(st)
      validDates ==
        SelectSeq(all, LAMBDA m : DateIsValid(DateString(m.date), host))
  IN  IF Len(all) = 0 THEN Null
      ELSE NonNull(
             [groupName |-> GroupName,
              messages |-> all,
              participants |-> Sort(st.participantsSet),
              messageCount |-> Len(all),
              dateRange |->
                [start |-> IF Len(validDates) > 0 THEN all[1].date
                           ELSE NotAvailable,
                 end |-> IF Len(validDates) > 0 THEN all[Len(all)].date
                         ELSE NotAvailable]])

RECURSIVE ParseFrom(_, _, _, _)
\* The loop over the lines from line i on, and the return.
ParseFrom(ls, i, st, host) ==
  IF st.threw THEN [threw |-> TRUE, value |-> Null]
  ELSE IF i > Len(ls) THEN [threw |-> FALSE, value |-> ReturnValue(st, host)]
  ELSE ParseFrom(ls, i + 1, LineStep(st, ls[i]), host)

\* parseWhatsAppChat(t) as a function: whether it threw, and what it returned.
ParseWhatsAppChat(t, host) == ParseFrom(Split(t, "\n"), 1, NewLocals, host)

(***************************************************************************)
(* The state machine: one call, one line of the loop per step.             *)
(***************************************************************************)
\* The value "all" of the sender select: every sender.
All == <<"a", "l", "l">>

Texts == TextsOf(LineTokens, MaxLines)
RepeatTexts == TextsOf(RepeatLineTokens, MaxRepeatLines)

InitWith(texts) ==
  /\ text \in texts
  /\ hostDates \in SUBSET HostDependentDates
  /\ pc = "idle"
  /\ lines = <<>>
  /\ idx = 1
  /\ messages = <<>>
  /\ participantsSet = <<>>
  /\ currentMessage = Null
  /\ result = Null
  /\ calls = 0
  /\ remembered = Null
  /\ file = Null
  /\ parsedData = Null
  /\ error = ""
  /\ loading = FALSE
  /\ searchTerm = <<>>
  /\ selectedSender = All
  /\ pending = <<>>
  /\ settled = Null
  /\ uploads = 0
  /\ csvContent = Null

Init == InitWith(Texts)
InitRepeat == InitWith(RepeatTexts)

Locals ==
  [messages |-> messages, participantsSet |-> participantsSet,
   currentMessage |-> currentMessage, threw |-> pc = "threw"]

SetLocals(st) ==
  /\ messages' = st.messages
  /\ participantsSet' = st.participantsSet
  /\ currentMessage' = st.currentMessage

\* Lines 32-49: a call on text t starts.
StartCall(t) ==
  /\ pc' = "loop"
  /\ lines' = Split(t, "\n")
  /\ idx' = 1
  /\ SetLocals(NewLocals)
  /\ result' = Null
  /\ calls' = calls + 1

\* The first call.
Call ==
  /\ pc = "idle"
  /\ StartCall(text)
  /\ UNCHANGED <<text, hostDates, remembered>>
  /\ UNCHANGED pageVars

LineKind(line) ==
  IF IsBlank(line) THEN "blank"
  ELSE IF FirstMatch(line) # Null THEN "header" ELSE "unmatched"

\* The loop is at a line of the given kind.
AtLine(kind) ==
  /\ pc = "loop"
  /\ idx <= Len(lines)
  /\ LineKind(lines[idx]) = kind

\* Lines 51-85: one iteration of the loop.
Iterate ==
  /\ LET st == LineStep(Locals, lines[idx])
     IN  /\ SetLocals(st)
         /\ pc' = IF st.threw THEN "threw" ELSE "loop"
  /\ idx' = idx + 1
  /\ UNCHANGED <<text, hostDates, lines, result, calls, remembered>>
  /\ UNCHANGED pageVars

\* Line 52: a blank line.
BlankLine ==
  /\ AtLine("blank")
  /\ Iterate

\* Lines 56-79: a line one of the patterns matches.
HeaderLine ==
  /\ AtLine("header")
  /\ Iterate

\* Lines 81-84: a line no pattern matches.
UnmatchedLine ==
  /\ AtLine("unmatched")
  /\ Iterate

\* Lines 87-107: the last message is pushed and the call returns.
Return ==
  /\ pc = "loop"
  /\ idx > Len(lines)
  /\ messages' = PushCurrent(Locals)
  /\ result' = ReturnValue(Locals, hostDates)
  /\ pc' = "done"
  /\ UNCHANGED <<text, hostDates, lines, idx, participantsSet,
                 currentMessage, calls, remembered>>
  /\ UNCHANGED pageVars

\* The caller, after a call returned, calls again with any text, and may keep
\* the finished call's text and result to compare with later ones.
CallAgain ==
  /\ pc = "done"
  /\ calls < MaxCalls
  /\ \E t \in RepeatTexts :
       /\ text' = t
       /\ StartCall(t)
  /\ \E keep \in BOOLEAN :
       remembered' = IF keep /\ remembered = Null
                     THEN NonNull([text |-> text, result |-> result])
                     ELSE remembered
  /\ UNCHANGED hostDates
  /\ UNCHANGED pageVars

Next == Call \/ BlankLine \/ HeaderLine \/ UnmatchedLine \/ Return
NextRepeat == Next \/ CallAgain

\* One call of parseWhatsAppChat on any text of at most MaxLines lines.
Spec == Init /\ [][Next]_vars
\* The call runs to its end: it is synchronous code.
FairSpec == Spec /\ WF_vars(Next)
\* Up to MaxCalls calls, one after the other.
RepeatSpec == InitRepeat /\ [][NextRepeat]_vars

(***************************************************************************)
(* Vocabulary of the properties.                                           *)
(***************************************************************************)
Done == pc = "done"
Returned == Done /\ result # Null
Parsed == Value(result)
InputLines == Split(text, "\n")

\* The input lines some pattern matches, computed once.
HeaderTokens ==
  {line \in LineTokens :
     \E p \in 1..Len(patterns) : RegexMatch(line, patterns[p]) # Null}

\* A header line: a line at least one pattern matches.
IsHeader(line) ==
  IF line \in LineTokens THEN line \in HeaderTokens
  ELSE \E p \in 1..Len(patterns) : RegexMatch(line, patterns[p]) # Null

IsUnmatched(line) == ~IsBlank(line) /\ ~IsHeader(line)

RECURSIVE HeaderIdxFrom(_, _)
\* The indices of the header lines of ls from k on, in increasing order.
HeaderIdxFrom(ls, k) ==
  IF k > Len(ls) THEN <<>>
  ELSE (IF IsHeader(ls[k]) THEN <<k>> ELSE <<>>) \o HeaderIdxFrom(ls, k + 1)

HeaderIdx(ls) == HeaderIdxFrom(ls, 1)

\* The fields a header line gives its message.
HeaderFields(line) ==
  LET m == Value(FirstMatch(line))
  IN  [date |-> m[2], time |-> m[3], sender |-> Trim(m[4]),
       first |-> Trim(m[5])]

IsPrefix(a, b) == Len(a) <= Len(b) /\ SubSeq(b, 1, Len(a)) = a

\* Message m carries the header fields of line.
FromHeader(m, line) ==
  LET h == HeaderFields(line)
  IN  /\ m.date = h.date
      /\ m.time = h.time
      /\ m.sender = h.sender
      /\ m.timestamp = h.date \o <<",", " ">> \o h.time
      /\ IsPrefix(h.first, m.message)

RECURSIVE Continuation(_, _, _, _)
\* The lines from to to of ls, a newline before each; with skipBlank, the
\* lines that are not blank only.
Continuation(ls, from, to, skipBlank) ==
  IF from > to THEN <<>>
  ELSE (IF skipBlank /\ IsBlank(ls[from]) THEN <<>>
        ELSE <<"\n">> \o ls[from])
       \o Continuation(ls, from + 1, to, skipBlank)

\* The body the j-th header line of ls and the lines up to the next header
\* line (or the end) make.
ExpectedBody(ls, j, skipBlank) ==
  LET H == HeaderIdx(ls)
      last == IF j < Len(H) THEN H[j + 1] - 1 ELSE Len(ls)
  IN  HeaderFields(ls[H[j]]).first
      \o Continuation(ls, H[j] + 1, last, skipBlank)

\* The text without its blank lines.
WithoutBlankLines(t) ==
  Join(SelectSeq(Split(t, "\n"), LAMBDA l : ~IsBlank(l)), <<"\n">>)

\* The text without the unmatched lines that come before its first header
\* line.
WithoutLeadingUnmatched(t) ==
  LET ls == Split(t, "\n")
      H == HeaderIdx(ls)
      first == IF H = <<>> THEN Len(ls) + 1 ELSE H[1]
      keep == {k \in 1..Len(ls) : k >= first \/ ~IsUnmatched(ls[k])}
      Kept[k \in 0..Len(ls)] ==
        IF k = 0 THEN <<>>
        ELSE IF k \in keep THEN Append(Kept[k - 1], ls[k]) ELSE Kept[k - 1]
  IN  Join(Kept[Len(ls)], <<"\n">>)

(***************************************************************************)
(* Properties.                                                             *)
(***************************************************************************)
\* C1: the call returns null exactly when no input line is a header line
\* (the empty string included), and a result that is not null has at least
\* one message.
C1_NullIffNoHeader ==
  Done =>
    /\ (result = Null) <=> (\A k \in 1..Len(InputLines) : ~IsHeader(InputLines[k]))
    /\ result # Null => Len(Parsed.messages) > 0

\* C1 witness: a text with lines, none of them a header line, returned null.
C1_Witness ==
  /\ Done
  /\ result = Null
  /\ \E k \in 1..Len(InputLines) : IsUnmatched(InputLines[k])

\* C2: the messages are in source order: they carry the header fields of
\* header lines at strictly increasing line indices, so none is reordered
\* or duplicated.
C2_SourceOrder ==
  Returned =>
    LET ms == Parsed.messages
    IN  \E f \in [1..Len(ms) -> 1..Len(InputLines)] :
          /\ \A j \in 1..Len(ms) - 1 : f[j] < f[j + 1]
          /\ \A j \in 1..Len(ms) :
               IsHeader(InputLines[f[j]]) /\ FromHeader(ms[j], InputLines[f[j]])

\* C2 witness: three messages of three different header lines.
C2_Witness ==
  /\ Returned
  /\ Len(Parsed.messages) = 3
  /\ Cardinality({InputLines[k] : k \in 1..Len(InputLines)}) = 3

\* C3 as claimed: the body of every message is the trimmed trailing text of
\* its header line followed by every physical line up to the next header
\* line or the end of the input, a newline before each.
C3_BodyOfEveryLine ==
  Returned =>
    LET ms == Parsed.messages
    IN  /\ Len(ms) = Len(HeaderIdx(InputLines))
        /\ \A j \in 1..Len(ms) :
             ms[j].message = ExpectedBody(InputLines, j, FALSE)

\* C3 as amended: the body of every message is the trimmed trailing text of
\* its header line followed by every physical line that is not blank up to
\* the next header line or the end of the input, a newline before each; the
\* unmatched lines after the last header line are in the last message.
C3_BodyOfNonBlankLines ==
  Returned =>
    LET ms == Parsed.messages
    IN  /\ Len(ms) = Len(HeaderIdx(InputLines))
        /\ \A j \in 1..Len(ms) :
             ms[j].message = ExpectedBody(InputLines, j, TRUE)

\* C3 witness: a header line and two unmatched lines after it, the last
\* lines of the input, made one message of three lines.
C3_Witness ==
  /\ Returned
  /\ Len(InputLines) = 3
  /\ IsHeader(InputLines[1])
  /\ IsUnmatched(InputLines[2])
  /\ IsUnmatched(InputLines[3])
  /\ Parsed.messages[1].message =
       HeaderFields(InputLines[1]).first
       \o <<"\n">> \o InputLines[2] \o <<"\n">> \o InputLines[3]

\* C4: participants holds exactly the senders of the messages, in strictly
\* increasing order (sorted, none twice).
C4_Participants ==
  Returned =>
    LET ms == Parsed.messages
        ps == Parsed.participants
    IN  /\ {ps[k] : k \in 1..Len(ps)} = {ms[j].sender : j \in 1..Len(ms)}
        /\ \A k \in 1..Len(ps) - 1 : StrLess(ps[k], ps[k + 1])

\* C4 witness: a sender of two messages, and a first sender that is not
\* the first participant.
C4_Witness ==
  /\ Returned
  /\ Len(Parsed.messages) = 3
  /\ Len(Parsed.participants) = 2
  /\ Parsed.messages[1].sender = Parsed.messages[3].sender
  /\ Parsed.messages[1].sender # Parsed.participants[1]

\* Whether the date of message m parses on the host.
Parseable(m) == DateIsValid(DateString(m.date), hostDates)

\* C5: with no message of a parseable date, start and end are the sentinel
\* N/A; otherwise start is the raw date of the first message and end the raw
\* date of the last, whichever of the messages have parseable dates.
C5_DateRange ==
  Returned =>
    LET ms == Parsed.messages
        range == Parsed.dateRange
    IN  IF \E j \in 1..Len(ms) : Parseable(ms[j])
        THEN range.start = ms[1].date /\ range.end = ms[Len(ms)].date
        ELSE range.start = NotAvailable /\ range.end = NotAvailable

\* C5 witness: the first and the last message have dates that do not parse,
\* one between them has one that does, and the range is that of the first
\* and the last.
C5_Witness ==
  /\ Returned
  /\ Len(Parsed.messages) = 3
  /\ ~Parseable(Parsed.messages[1])
  /\ Parseable(Parsed.messages[2])
  /\ ~Parseable(Parsed.messages[3])
  /\ Parsed.dateRange.start = Parsed.messages[1].date
  /\ Parsed.dateRange.start # Parsed.messages[2].date

\* C6: a call on the text of an earlier call returns what that call
\* returned, whatever calls ran before or between the two.
C6_SameTextSameResult ==
  (Done /\ remembered # Null /\ Value(remembered).text = text)
    => result = Value(remembered).result

\* C6 witness: the third call of a run is on the text of a remembered
\* earlier call and returned a result.
C6_Witness ==
  /\ Returned
  /\ calls = 3
  /\ remembered # Null
  /\ Value(remembered).text = text
  /\ Len(Parsed.participants) = 1

\* C7: messageCount is the length of messages, which is the number of
\* header lines of the input.
C7_MessageCount ==
  Returned =>
    /\ Parsed.messageCount = Len(Parsed.messages)
    /\ Len(Parsed.messages) = Len(HeaderIdx(InputLines))

\* C7 witness: an input whose last line is a header line, its message the
\* last of two.
C7_Witness ==
  /\ Returned
  /\ Len(InputLines) = 3
  /\ IsHeader(InputLines[3])
  /\ Parsed.messageCount = 2

\* C8: the call never throws, and it ends, with null or with a result.
C8_NeverThrowsAndEnds == [](pc # "threw") /\ <>Done

\* C8 witness: a call on a blank line, an unmatched line and a header line
\* ended.
C8_Witness ==
  /\ Done
  /\ \E i, j, k \in 1..Len(InputLines) :
       /\ IsBlank(InputLines[i])
       /\ IsUnmatched(InputLines[j])
       /\ IsHeader(InputLines[k])

\* C9: a blank line changes nothing of the parser's state, and the call
\* returns what it returns on the text without its blank lines.
C9_BlankLinesIgnored ==
  /\ [][AtLine("blank") =>
          UNCHANGED <<messages, participantsSet, currentMessage>>]_vars
  /\ [](Done =>
          LET other == ParseWhatsAppChat(WithoutBlankLines(text), hostDates)
          IN  ~other.threw /\ other.value = result)

\* C9 witness: a blank line between a header line and an unmatched line,
\* and a message of both.
C9_Witness ==
  /\ Returned
  /\ Len(InputLines) = 3
  /\ IsHeader(InputLines[1])
  /\ IsBlank(InputLines[2])
  /\ IsUnmatched(InputLines[3])
  /\ Parsed.messages[1].message =
       HeaderFields(InputLines[1]).first \o <<"\n">> \o InputLines[3]

\* C10: the unmatched lines before the first header line are dropped: the
\* call returns what it returns on the text without them, so they are in no
\* body and add no participant.
C10_LeadingUnmatchedDropped ==
  Done =>
    LET other == ParseWhatsAppChat(WithoutLeadingUnmatched(text), hostDates)
    IN  ~other.threw /\ other.value = result

\* C10 witness: two unmatched lines, then a header line, and one message.
C10_Witness ==
  /\ Returned
  /\ Len(InputLines) = 3
  /\ IsUnmatched(InputLines[1])
  /\ IsUnmatched(InputLines[2])
  /\ IsHeader(InputLines[3])
  /\ Parsed.messageCount = 1

\* The patterns that match each input line, computed once.
MatchingPatternsOfToken ==
  [line \in LineTokens |->
     {p \in 1..Len(patterns) : RegexMatch(line, patterns[p]) # Null}]

MatchingPatterns(line) ==
  IF line \in LineTokens THEN MatchingPatternsOfToken[line]
  ELSE {p \in 1..Len(patterns) : RegexMatch(line, patterns[p]) # Null}

\* The message the match array m of a pattern starts.
MessageOfMatch(m) ==
  [timestamp |-> m[2] \o <<",", " ">> \o m[3],
   date |-> m[2],
   time |-> m[3],
   sender |-> Trim(m[4]),
   message |-> Trim(m[5])]

\* The pattern of least index that matches the line.
LowestPattern(line) ==
  CHOOSE p \in MatchingPatterns(line) :
    \A q \in MatchingPatterns(line) : p <= q

\* C11: a step on a header line, one that several patterns match included,
\* starts exactly one message, whose fields are those of the matching
\* pattern of least index: the message in progress before is pushed once,
\* and the one sender is recorded.
C11_FirstPatternOnly ==
  [][HeaderLine =>
       LET line == lines[idx]
           started ==
             MessageOfMatch(Value(RegexMatch(line, patterns[LowestPattern(line)])))
       IN  /\ currentMessage' = NonNull(started)
           /\ messages' = IF currentMessage # Null
                          THEN Append(messages, Value(currentMessage))
                          ELSE messages
           /\ participantsSet' = IF Has(participantsSet, started.sender)
                                 THEN participantsSet
                                 ELSE Append(participantsSet, started.sender)]_vars

\* C11 witness: the step on a second header line, one that three patterns
\* match, is done: one message is pushed and one is in progress.
C11_Witness ==
  /\ pc = "loop"
  /\ idx = 3
  /\ IsHeader(lines[1])
  /\ Cardinality(MatchingPatterns(lines[2])) = 3
  /\ Len(messages) = 1
  /\ currentMessage # Null
  /\ Len(participantsSet) = 2

\* The part of string s before its first newline.
FirstLine(s) == Split(s, "\n")[1]

\* C12: the sender of every message has no colon and no whitespace at
\* either end, and the first line of its body is what follows the first
\* colon after the sender in its header line, trimmed.
C12_SenderAndBody ==
  Returned =>
    LET ms == Parsed.messages
        H == HeaderIdx(InputLines)
    IN  /\ Len(ms) = Len(H)
        /\ \A j \in 1..Len(ms) :
             LET line == InputLines[H[j]]
             IN  /\ \A k \in 1..Len(ms[j].sender) : ms[j].sender[k] # ":"
                 /\ Trim(ms[j].sender) = ms[j].sender
                 /\ \E a, c \in 1..Len(line) :
                      /\ a < c
                      /\ line[c] = ":"
                      /\ \A k \in a..c - 1 : line[k] # ":"
                      /\ Trim(SubSeq(line, a, c - 1)) = ms[j].sender
                      /\ FirstLine(ms[j].message) =
                           Trim(SubSeq(line, c + 1, Len(line)))

\* C12 witness: a header line with a colon in its trailing text and one
\* with a space between the sender and the colon made their messages.
C12_Witness ==
  /\ Returned
  /\ Len(Parsed.messages) = 2
  /\ \E k \in 1..Len(Parsed.messages[1].message) :
       Parsed.messages[1].message[k] = ":"
  /\ \E a, c \in 1..Len(InputLines[2]) :
       /\ a < c
       /\ InputLines[2][c] = ":"
       /\ Parsed.messages[2].sender \o <<" ">> = SubSeq(InputLines[2], a, c - 1)

\* C14: a message once pushed is never changed: every step of the call
\* leaves the pushed messages as they are and at most appends one, and a
\* step on an unmatched line changes nothing but the body of the message in
\* progress.
C14_EmittedNeverChanged ==
  [][pc = "loop" =>
       /\ IsPrefix(messages, messages')
       /\ Len(messages') <= Len(messages) + 1
       /\ UnmatchedLine =>
            /\ messages' = messages
            /\ participantsSet' = participantsSet
            /\ (currentMessage = Null) <=> (currentMessage' = Null)
            /\ currentMessage # Null =>
                 Value(currentMessage') =
                   [Value(currentMessage) EXCEPT
                      !.message = Value(currentMessage').message]]_vars

\* C14 witness: with one message pushed, the step on an unmatched line is
\* done and the body of the message in progress has the line.
C14_Witness ==
  /\ pc = "loop"
  /\ idx = 4
  /\ IsUnmatched(lines[3])
  /\ Len(messages) = 1
  /\ currentMessage # Null
  /\ IsPrefix(HeaderFields(lines[2]).first \o <<"\n">> \o lines[3],
              Value(currentMessage).message)
  /\ messages[1].message = HeaderFields(lines[1]).first

(***************************************************************************)
(* The page: the uploaded file, the search box, the sender select and the  *)
(* download buttons.                                                       *)
(***************************************************************************)

\* The files a user picks: a file is its text and whether text() resolves.
ChatFile ==
  [name |-> "chat",
   text |-> Join(<<LineDashPm, LineText, LineBadMonth>>, <<"\n">>),
   readable |-> TRUE]
OtherChatFile == [name |-> "other", text |-> LineBracket, readable |-> TRUE]
JunkFile == [name |-> "junk", text |-> LineText, readable |-> TRUE]
UnreadableFile == [name |-> "unreadable", text |-> <<>>, readable |-> FALSE]
Files == {ChatFile, OtherChatFile, JunkFile, UnreadableFile}

\* The two messages of setError.
CouldNotParse ==
  "Could not parse WhatsApp chat. Please ensure you uploaded a valid WhatsApp chat export (.txt file)."
ErrorReading == "Error reading file. Please try again."

\* What the user types in the search box.
SearchTerms == {<<>>, <<"A">>, <<"H", "I">>}

\* String.prototype.toLowerCase on one character of the alphabet.
ToLower(c) ==
  CASE c = "A" -> "a" [] c = "B" -> "b" [] c = "H" -> "h" [] c = "I" -> "i"
    [] OTHER -> c

RECURSIVE ToLowerCase(_)
ToLowerCase(s) ==
  IF s = <<>> THEN <<>> ELSE <<ToLower(Head(s))>> \o ToLowerCase(Tail(s))

\* Whether needle starts at position i (from 1) of s.
StartsAt(s, needle, i) ==
  /\ i + Len(needle) - 1 <= Len(s)
  /\ \A k \in 1..Len(needle) : s[i + k - 1] = needle[k]

RECURSIVE IncludesFrom(_, _, _)
IncludesFrom(s, needle, i) ==
  IF i + Len(needle) - 1 > Len(s) THEN FALSE
  ELSE IF StartsAt(s, needle, i) THEN TRUE
  ELSE IncludesFrom(s, needle, i + 1)

\* String.prototype.includes.
Includes(s, needle) == IncludesFrom(s, needle, 1)

\* The filter of filteredMessages without toLowerCase.
FilterCaseSensitive(msg, term, sender) ==
  /\ \/ Includes(msg.message, term)
     \/ Includes(msg.sender, term)
  /\ (sender = All \/ msg.sender = sender)

\* The callback of parsedData.messages.filter.
Filter(msg, term, sender) ==
  /\ \/ Includes(ToLowerCase(msg.message), ToLowerCase(term))
     \/ Includes(ToLowerCase(msg.sender), ToLowerCase(term))
  /\ (sender = All \/ msg.sender = sender)

\* const filteredMessages, computed at every render.
FilteredMessages(data, term, sender) ==
  IF data = Null THEN <<>>
  ELSE SelectSeq(Value(data).messages, LAMBDA msg : Filter(msg, term, sender))

filteredMessages == FilteredMessages(parsedData, searchTerm, selectedSender)

RECURSIVE ReplaceFirst(_, _, _)
\* String.prototype.replace with a pattern of one character and no g flag.
ReplaceFirst(s, ch, by) ==
  IF s = <<>> THEN <<>>
  ELSE IF Head(s) = ch THEN by \o Tail(s)
  ELSE <<Head(s)>> \o ReplaceFirst(Tail(s), ch, by)

RECURSIVE ReplaceAll(_, _, _)
\* String.prototype.replace with a pattern of one character and the g flag.
ReplaceAll(s, ch, by) ==
  IF s = <<>> THEN <<>>
  ELSE IF Head(s) = ch THEN by \o ReplaceAll(Tail(s), ch, by)
  ELSE <<Head(s)>> \o ReplaceAll(Tail(s), ch, by)

\* The column names of the CSV.
CsvHeaders ==
  <<<<"D", "a", "t", "e">>, <<"T", "i", "m", "e">>,
    <<"S", "e", "n", "d", "e", "r">>,
    <<"M", "e", "s", "s", "a", "g", "e">>>>

\* The array one message maps to, joined.
CsvRow(msg) ==
  Join(<<msg.date, msg.time, msg.sender,
         <<"\"">> \o ReplaceAll(msg.message, "\"", <<"\"", "\"">>) \o <<"\"">>>>,
       <<",">>)

RECURSIVE CsvRows(_)
\* parsedData.messages.map over the rows.
CsvRows(msgs) ==
  IF msgs = <<>> THEN <<>> ELSE <<CsvRow(Head(msgs))>> \o CsvRows(Tail(msgs))

\* const csvContent of downloadCSV.
CsvContent(data) ==
  Join(<<Join(CsvHeaders, <<",">>)>> \o CsvRows(data.messages), <<"\n">>)

\* The try block of handleFileUpload that leaves the data of an earlier
\* upload in place when the text does not parse.
HandleTextKeepsData(f, host, prev) ==
  LET parsed == ParseWhatsAppChat(f.text, host)
  IN  IF parsed.threw THEN [parsedData |-> Null, error |-> ErrorReading]
      ELSE IF \/ parsed.value = Null
              \/ Len(Value(parsed.value).messages) = 0
      THEN [parsedData |-> prev.parsedData, error |-> CouldNotParse]
      ELSE [parsedData |-> parsed.value, error |-> prev.error]

\* The try block of handleFileUpload once the text of f is read: the
\* parsedData and the error it leaves, given the ones before it.
HandleText(f, host, prev) ==
  LET parsed == ParseWhatsAppChat(f.text, host)
  IN  IF parsed.threw THEN [parsedData |-> Null, error |-> ErrorReading]
      ELSE IF \/ parsed.value = Null
              \/ Len(Value(parsed.value).messages) = 0
      THEN [parsedData |-> Null, error |-> CouldNotParse]
      ELSE [parsedData |-> parsed.value, error |-> prev.error]

\* The catch block of handleFileUpload.
HandleRejection == [parsedData |-> Null, error |-> ErrorReading]

\* A sequence without its i-th element.
Without(seq, i) == SubSeq(seq, 1, i - 1) \o SubSeq(seq, i + 1, Len(seq))

RECURSIVE Overlapped(_)
\* The calls in flight, each marked as having run beside another call.
Overlapped(calls_) ==
  IF calls_ = <<>> THEN <<>>
  ELSE <<[Head(calls_) EXCEPT !.overlapped = TRUE]>> \o Overlapped(Tail(calls_))

\* The page before any file is chosen; no parseWhatsAppChat call is traced
\* line by line.
PageInit == InitWith({<<>>})

\* handleFileUpload when the file dialog is closed without a file.
NoFileChosen ==
  /\ UNCHANGED vars

\* handleFileUpload with a file, up to its await.
FileChosen(f) ==
  /\ uploads < MaxUploads
  /\ uploads' = uploads + 1
  /\ file' = NonNull(f)
  /\ error' = ""
  /\ loading' = TRUE
  /\ pending' = Append(Overlapped(pending),
                       [file |-> f, overlapped |-> pending # <<>>])
  /\ UNCHANGED <<parsedData, searchTerm, selectedSender, settled, csvContent>>
  /\ UNCHANGED <<parserVars, hostDates>>

\* The end of the i-th call in flight, leaving parsedData and error as out.
Settle(i, out) ==
  /\ parsedData' = out.parsedData
  /\ error' = out.error
  /\ loading' = FALSE
  /\ pending' = Without(pending, i)
  /\ settled' = NonNull(pending[i])
  /\ UNCHANGED <<file, searchTerm, selectedSender, uploads, csvContent>>
  /\ UNCHANGED <<parserVars, hostDates>>

\* handleFileUpload from its await on, when the text is read.
TextResolves(i) ==
  /\ pending[i].file.readable
  /\ Settle(i, HandleText(pending[i].file, hostDates,
                          [parsedData |-> parsedData, error |-> error]))

\* handleFileUpload from its await on, when the read fails.
TextRejects(i) ==
  /\ ~pending[i].file.readable
  /\ Settle(i, HandleRejection)

\* onChange of the search box, which is rendered with the parsed data.
SetSearchTerm(value) ==
  /\ parsedData # Null
  /\ searchTerm' = value
  /\ UNCHANGED <<file, parsedData, error, loading, selectedSender, pending,
                 settled, uploads, csvContent>>
  /\ UNCHANGED <<parserVars, hostDates>>

\* The options of the sender select.
SenderOptions == {All} \cup {Value(parsedData).participants[k] :
                               k \in 1..Len(Value(parsedData).participants)}

\* onChange of the sender select, which is rendered with the parsed data.
SetSelectedSender(value) ==
  /\ parsedData # Null
  /\ value \in SenderOptions
  /\ selectedSender' = value
  /\ UNCHANGED <<file, parsedData, error, loading, searchTerm, pending,
                 settled, uploads, csvContent>>
  /\ UNCHANGED <<parserVars, hostDates>>

\* downloadCSV, up to the content it hands to encodeURIComponent.
DownloadCSV ==
  /\ parsedData # Null
  /\ csvContent' = NonNull(CsvContent(Value(parsedData)))
  /\ UNCHANGED <<file, parsedData, error, loading, searchTerm, selectedSender,
                 pending, settled, uploads>>
  /\ UNCHANGED <<parserVars, hostDates>>

\* Every sender a parse of one of the files can list.
Senders == {<<"a">>, <<"b">>, <<"B">>}

PageNext ==
  \/ NoFileChosen
  \/ \E f \in Files : FileChosen(f)
  \/ \E i \in 1..Len(pending) : TextResolves(i)
  \/ \E i \in 1..Len(pending) : TextRejects(i)
  \/ \E value \in SearchTerms : SetSearchTerm(value)
  \/ \E value \in {All} \cup Senders : SetSelectedSender(value)
  \/ DownloadCSV

PageSpec == PageInit /\ [][PageNext]_vars

(***************************************************************************)
(* The claims about the page.                                              *)
(***************************************************************************)

\* The number of double quotes among the first n characters of s.
QuotesBefore(s, n) == Cardinality({k \in 1..n : s[k] = "\""})

\* d is s with every double quote written twice: each character of s is in
\* d, moved right by the number of quotes before it, and a quote is followed
\* by a second one.
IsDoubled(d, s) ==
  /\ Len(d) = Len(s) + QuotesBefore(s, Len(s))
  /\ \A k \in 1..Len(s) :
       LET at == k + QuotesBefore(s, k - 1)
       IN  /\ d[at] = s[k]
           /\ s[k] = "\"" => d[at + 1] = "\""

RECURSIVE IsRowsOf(_, _)
\* c is one row for each of the messages ms, in their order, each after a line
\* break: date, time and sender, then the body doubled and in double quotes.
IsRowsOf(c, ms) ==
  IF ms = <<>> THEN c = <<>>
  ELSE LET msg == Head(ms)
           before == <<"\n">> \o msg.date \o <<",">> \o msg.time \o <<",">>
                       \o msg.sender \o <<",", "\"">>
           n == Len(msg.message) + QuotesBefore(msg.message, Len(msg.message))
           from == Len(before)
       IN  /\ Len(c) >= from + n + 1
           /\ SubSeq(c, 1, from) = before
           /\ IsDoubled(SubSeq(c, from + 1, from + n), msg.message)
           /\ c[from + n + 1] = "\""
           /\ IsRowsOf(SubSeq(c, from + n + 2, Len(c)), Tail(ms))

\* The header row of the CSV.
HeaderRow ==
  <<"D", "a", "t", "e", ",", "T", "i", "m", "e", ",", "S", "e", "n", "d", "e",
    "r", ",", "M", "e", "s", "s", "a", "g", "e">>

\* C13: downloadCSV produces the header row Date,Time,Sender,Message and then
\* exactly one row per message, in message order, whose Message field is the
\* body with every double quote doubled, wrapped in double quotes.
C13_CsvRows ==
  [][DownloadCSV =>
       LET c == Value(csvContent')
       IN  /\ csvContent' # Null
           /\ IsPrefix(HeaderRow, c)
           /\ IsRowsOf(SubSeq(c, Len(HeaderRow) + 1, Len(c)),
                       Value(parsedData).messages)]_vars

\* A CSV was made of two messages, one of two lines and one with two double
\* quotes in its body.
C13_Witness ==
  /\ csvContent # Null
  /\ parsedData # Null
  /\ Len(Value(parsedData).messages) = 2
  /\ Has(Value(parsedData).messages[1].message, "\n")
  /\ QuotesBefore(Value(parsedData).messages[2].message,
                  Len(Value(parsedData).messages[2].message)) = 2
  /\ IsRowsOf(SubSeq(Value(csvContent), Len(HeaderRow) + 1,
                     Len(Value(csvContent))),
              Value(parsedData).messages)

\* A handleFileUpload call has ended that ran beside no other call, and no
\* call is in flight.
SingleCallCompleted ==
  /\ pending = <<>>
  /\ settled # Null
  /\ ~Value(settled).overlapped

\* C15: after a single handleFileUpload call with a file has run to its end,
\* loading is false and exactly one of these holds: error is not empty and
\* parsedData is null, or error is empty and parsedData is a result with at
\* least one message.
C15_SingleUploadOutcome ==
  SingleCallCompleted =>
    /\ loading = FALSE
    /\ \/ error # "" /\ parsedData = Null
       \/ /\ error = ""
          /\ parsedData # Null
          /\ Len(Value(parsedData).messages) >= 1

\* A single call for a text that does not parse has ended, after an earlier
\* call had left parsed data.
C15_Witness ==
  /\ SingleCallCompleted
  /\ Value(settled).file = JunkFile
  /\ uploads >= 2
  /\ csvContent # Null
  /\ error = CouldNotParse
  /\ parsedData = Null

\* The parsedData and error a call for file f leaves when it runs alone.
OutcomeOf(f) ==
  IF f.readable
  THEN HandleText(f, hostDates, [parsedData |-> Null, error |-> ""])
  ELSE HandleRejection

\* Calls that ran beside each other have all ended.
OverlappingCallsCompleted ==
  /\ pending = <<>>
  /\ settled # Null
  /\ Value(settled).overlapped

\* C16: when handleFileUpload is called for file A and again for file B
\* before A's text is read, then after both calls have ended parsedData and
\* error are those of B, the file held in file; and loading is never false
\* while a call is still in flight.
C16_LatestUploadWins ==
  /\ pending # <<>> => loading = TRUE
  /\ OverlappingCallsCompleted =>
       [parsedData |-> parsedData, error |-> error] = OutcomeOf(Value(file))

\* Both calls have ended with the parsed data of the file chosen first and
\* the error of the file chosen last, which is the one held in file.
C16_StaleResult ==
  /\ OverlappingCallsCompleted
  /\ uploads = 2
  /\ Value(file) = JunkFile
  /\ Value(settled).file = ChatFile
  /\ parsedData = OutcomeOf(ChatFile).parsedData
  /\ error = CouldNotParse

\* s contains t when the case of letters is ignored.
ContainsIgnoringCase(s, t) ==
  \E i \in 0..(Len(s) - Len(t)) :
    \A k \in 1..Len(t) : ToLower(s[i + k]) = ToLower(t[k])

\* The messages the filters are applied to.
ShownMessages == IF parsedData = Null THEN <<>> ELSE Value(parsedData).messages

\* The positions of the messages that pass the search box and the select.
Kept ==
  {j \in 1..Len(ShownMessages) :
     /\ \/ ContainsIgnoringCase(ShownMessages[j].message, searchTerm)
        \/ ContainsIgnoringCase(ShownMessages[j].sender, searchTerm)
     /\ \/ ShownMessages[j].sender = selectedSender
        \/ selectedSender = All}

\* C17: filteredMessages is an order-preserving subsequence of
\* parsedData.messages, empty when parsedData is null: exactly the messages
\* whose body or sender contains searchTerm, case ignored, and whose sender is
\* selectedSender or selectedSender is 'all'; with an empty searchTerm and
\* 'all' it is the whole list.
C17_FilteredSubsequence ==
  /\ Len(filteredMessages) = Cardinality(Kept)
  /\ \E at \in [1..Len(filteredMessages) -> Kept] :
       /\ \A i, j \in 1..Len(filteredMessages) : i < j => at[i] < at[j]
       /\ \A i \in 1..Len(filteredMessages) :
            filteredMessages[i] = ShownMessages[at[i]]
  /\ parsedData = Null => filteredMessages = <<>>
  /\ (searchTerm = <<>> /\ selectedSender = All) =>
       filteredMessages = ShownMessages

\* Of two messages the search for "A" keeps the one sent by "a", whose body
\* has no "a".
C17_Witness ==
  /\ Len(ShownMessages) = 2
  /\ searchTerm = <<"A">>
  /\ selectedSender = <<"a">>
  /\ filteredMessages = <<ShownMessages[1]>>
  /\ ~ContainsIgnoringCase(ShownMessages[1].message, searchTerm)

=============================================================================
